---- MODULE Spec2Model ----
\* Authentication-System (src/Auth.js): the Auth class with its two Maps
\* (userTable, sessionTable), its four operations and its two utilities.
\* Every async operation is split at its awaits: the code before the first
\* await runs when the operation is called, the rest when the awaited digest
\* is delivered. Spec is the driver of lines 126-158, which awaits every call
\* before it makes the next one; SpecConc lets MaxCalls calls be in flight.
EXTENDS Integers, Sequences, FiniteSets, TLC

\* The program: the two Maps of the Auth object and the frames of its calls.
VARIABLES userTable, sessionTable, calls
\* What the callers have seen: the number of calls made, the driver's previous
\* call with its result, both Maps as they were when the driver made its
\* current call, and per email the call that set the stored password and the
\* last successful session call.
VARIABLES nops, prev, before, credential, lastSession

vars == <<userTable, sessionTable, calls, nops, prev, before, credential, lastSession>>

\* ---------------------------------------------------------------- bounds
\* Number of calls the driver makes in one run.
MaxOps == 3
\* Number of calls that can be in flight at once under SpecConc.
MaxCalls == 2
\* The number of draw sequences of generateToken the calls are explored with.
MaxDraws == 2

\* ---------------------------------------------------------------- inputs
adminEmail == "admin@x"
Emails == {adminEmail, "j@x", "f@x"}
Names == {"J", "pw"}
Passwords == {"admin123", "pw"}
Calls == 1..MaxCalls
\* The arguments the concurrent callers draw.
ConcEmails == {adminEmail, "j@x"}
ConcNames == {"J"}
ConcPasswords == Passwords

\* ------------------------------------------------ hashPassword (31-37)
\* TextEncoder.encode (32-33) on printable ASCII, one byte per character. The
\* two tables hold the characters 32..95 and 97..126.
AsciiLow == " !\"#$%&'()*+,-./0123456789:;<=>?@ABCDEFGHIJKLMNOPQRSTUVWXYZ[\\]^_"
AsciiHigh == "abcdefghijklmnopqrstuvwxyz{|}~"
CharAt(s, i) == SubSeq(s, i, i)
CharCode(ch) == IF \E i \in 1..64 : CharAt(AsciiLow, i) = ch
                THEN 31 + CHOOSE i \in 1..64 : CharAt(AsciiLow, i) = ch
                ELSE 96 + CHOOSE i \in 1..30 : CharAt(AsciiHigh, i) = ch
Utf8(s) == [i \in 1..Len(s) |-> CharCode(CharAt(s, i))]

\* crypto.subtle.digest('SHA-256', data) (34). A 32-bit word is the pair of
\* its 16-bit halves <<high, low>>, so that no intermediate value leaves the
\* range of the integers.

RECURSIVE Xor16(_, _)
Xor16(a, b) == IF a = 0 THEN b ELSE IF b = 0 THEN a
               ELSE ((a + b) % 2) + 2 * Xor16(a \div 2, b \div 2)
RECURSIVE And16(_, _)
And16(a, b) == IF a = 0 \/ b = 0 THEN 0
               ELSE ((a % 2) * (b % 2)) + 2 * And16(a \div 2, b \div 2)
RECURSIVE Pow2(_)
Pow2(n) == IF n = 0 THEN 1 ELSE 2 * Pow2(n - 1)
Xor(a, b) == <<Xor16(a[1], b[1]), Xor16(a[2], b[2])>>
And(a, b) == <<And16(a[1], b[1]), And16(a[2], b[2])>>
Not(a) == <<65535 - a[1], 65535 - a[2]>>
AddC(hi, lo) == <<(hi + lo \div 65536) % 65536, lo % 65536>>
Add(a, b) == AddC(a[1] + b[1], a[2] + b[2])
RotrSmall(a, p, q) == <<(a[1] \div p) + (a[2] % p) * q, (a[2] \div p) + (a[1] % p) * q>>
Rotr(a, n) == IF n >= 16 THEN RotrSmall(<<a[2], a[1]>>, Pow2(n - 16), Pow2(32 - n))
              ELSE RotrSmall(a, Pow2(n), Pow2(16 - n))
ShrSmall(a, p, q) == <<a[1] \div p, (a[2] \div p) + (a[1] % p) * q>>
Shr(a, n) == IF n >= 16 THEN <<0, a[1] \div Pow2(n - 16)>> ELSE ShrSmall(a, Pow2(n), Pow2(16 - n))
Xor3(a, b, c) == Xor(Xor(a, b), c)
BigSigma0(a) == Xor3(Rotr(a, 2), Rotr(a, 13), Rotr(a, 22))
BigSigma1(a) == Xor3(Rotr(a, 6), Rotr(a, 11), Rotr(a, 25))
SmallSigma0(a) == Xor3(Rotr(a, 7), Rotr(a, 18), Shr(a, 3))
SmallSigma1(a) == Xor3(Rotr(a, 17), Rotr(a, 19), Shr(a, 10))
Ch(e, f, g) == Xor(And(e, f), And(Not(e), g))
Maj(a, b, c) == Xor3(And(a, b), And(a, c), And(b, c))
K == <<<<17034, 12184>>, <<28983, 17553>>, <<46528, 64463>>, <<59829, 56229>>,
      <<14678, 49755>>, <<23025, 4593>>, <<37439, 33444>>, <<43804, 24277>>,
      <<55303, 43672>>, <<4739, 23297>>, <<9265, 34238>>, <<21772, 32195>>,
      <<29374, 23924>>, <<32990, 45566>>, <<39900, 1703>>, <<49563, 61812>>,
      <<58523, 27073>>, <<61374, 18310>>, <<4033, 40390>>, <<9228, 41420>>,
      <<11753, 11375>>, <<19060, 33962>>, <<23728, 43484>>, <<30457, 35034>>,
      <<38974, 20818>>, <<43057, 50797>>, <<45059, 10184>>, <<48985, 32711>>,
      <<50912, 3059>>, <<54695, 37191>>, <<1738, 25425>>, <<5161, 10599>>,
      <<10167, 2693>>, <<11803, 8504>>, <<19756, 28156>>, <<21304, 3347>>,
      <<25866, 29524>>, <<30314, 2747>>, <<33218, 51502>>, <<37490, 11397>>,
      <<41663, 59553>>, <<43034, 26187>>, <<49739, 35696>>, <<51052, 20899>>,
      <<53650, 59417>>, <<54937, 1572>>, <<62478, 13701>>, <<4202, 41072>>,
      <<6564, 49430>>, <<7735, 27656>>, <<10056, 30540>>, <<13488, 48309>>,
      <<14620, 3251>>, <<20184, 43594>>, <<23452, 51791>>, <<26670, 28659>>,
      <<29839, 33518>>, <<30885, 25455>>, <<33992, 30740>>, <<36039, 520>>,
      <<37054, 65530>>, <<42064, 27883>>, <<48889, 41975>>, <<50801, 30962>>>>
H0 == <<<<27145, 58983>>, <<47975, 44677>>, <<15470, 62322>>, <<42319, 62778>>,
       <<20750, 21119>>, <<39685, 26764>>, <<8067, 55723>>, <<23520, 52505>>>>
Zeros(n) == [i \in 1..n |-> 0]
BigEndian32(v) == <<v \div 16777216, (v \div 65536) % 256, (v \div 256) % 256, v % 256>>
Pad(bytes) == bytes \o <<128>> \o Zeros((119 - (Len(bytes) % 64)) % 64)
              \o Zeros(4) \o BigEndian32(8 * Len(bytes))
Word(bytes, i) == <<256 * bytes[i] + bytes[i + 1], 256 * bytes[i + 2] + bytes[i + 3]>>
\* The message schedule W[lo..hi], appended to W[1..lo-1]. The range is halved
\* rather than walked so that the evaluation stays shallow.
RECURSIVE Schedule(_, _, _)
Schedule(W, lo, hi) ==
    IF Len(W) # lo - 1 THEN W
    ELSE IF lo = hi
    THEN Append(W, Add(Add(SmallSigma1(W[lo - 2]), W[lo - 7]),
                       Add(SmallSigma0(W[lo - 15]), W[lo - 16])))
    ELSE Schedule(Schedule(W, lo, (lo + hi) \div 2), ((lo + hi) \div 2) + 1, hi)
StepWith(s, t1, t2) == <<Add(t1, t2), s[1], s[2], s[3], Add(s[4], t1), s[5], s[6], s[7]>>
Step(s, k, w) == StepWith(s, Add(Add(Add(s[8], BigSigma1(s[5])), Add(Ch(s[5], s[6], s[7]), k)), w),
                          Add(BigSigma0(s[1]), Maj(s[1], s[2], s[3])))
\* Rounds lo..hi of the compression function, halved like Schedule.
RECURSIVE Rounds(_, _, _, _)
Rounds(s, W, lo, hi) ==
    IF Len(s) # 8 THEN s
    ELSE IF lo = hi THEN Step(s, K[lo], W[lo])
    ELSE Rounds(Rounds(s, W, lo, (lo + hi) \div 2), W, ((lo + hi) \div 2) + 1, hi)
Compress(h, block) == LET r == Rounds(h, Schedule([i \in 1..16 |-> Word(block, 4 * i - 3)], 17, 64), 1, 64)
                      IN  [i \in 1..8 |-> Add(h[i], r[i])]
RECURSIVE Blocks(_, _)
Blocks(h, bytes) == IF Len(bytes) = 0 THEN h
                    ELSE Blocks(Compress(h, SubSeq(bytes, 1, 64)), SubSeq(bytes, 65, Len(bytes)))
Sha256(bytes) == Blocks(H0, Pad(bytes))

\* b.toString(16).padStart(2, '0') and join('') (35-36).
HexDigits == "0123456789abcdef"
Hex2(b) == CharAt(HexDigits, (b \div 16) + 1) \o CharAt(HexDigits, (b % 16) + 1)
HexWord(w) == Hex2(w[1] \div 256) \o Hex2(w[1] % 256) \o Hex2(w[2] \div 256) \o Hex2(w[2] % 256)
HexJoin(h) == HexWord(h[1]) \o HexWord(h[2]) \o HexWord(h[3]) \o HexWord(h[4])
              \o HexWord(h[5]) \o HexWord(h[6]) \o HexWord(h[7]) \o HexWord(h[8])
\* hashPassword returning its argument.
hashPasswordPlain(password) == password

hashPassword(password) == HexJoin(Sha256(Utf8(password)))

\* Digests of the passwords the model draws, computed once.
Digests == {<<p, hashPassword(p)>> : p \in Passwords}
Hashed(p) == IF \E d \in Digests : d[1] = p
             THEN (CHOOSE d \in Digests : d[1] = p)[2]
             ELSE hashPassword(p)

\* ------------------------------------------------ generateToken (22-29)
chars == "ABCDEFGHIJKLMNOPQRSTUVWXYZabcdefghijklmnopqrstuvwxyz0123456789"
TokenLength == 32
\* One value of Math.floor(Math.random() * chars.length): an index into chars.
Draw == 0..(Len(chars) - 1)
\* The draws of one call of generateToken: any sequence of TokenLength
\* indices. The set is far too large to enumerate; it is used for membership.
RandomDraws == [1..TokenLength -> Draw]
\* The draw sequences the calls are explored with, MaxDraws of RandomDraws:
\* the k-th has the index (7 * k * i) % chars.length at position i.
SampledDraws == {[i \in 1..TokenLength |-> (7 * k * i) % Len(chars)] : k \in 0..(MaxDraws - 1)}
\* The characters lo..hi of the token (the loop of lines 25-27, halved).
RECURSIVE generateTokenFrom(_, _, _)
generateTokenFrom(random, lo, hi) ==
    IF lo > hi THEN ""
    ELSE IF lo = hi THEN CharAt(chars, random[lo] + 1)
    ELSE generateTokenFrom(random, lo, (lo + hi) \div 2)
         \o generateTokenFrom(random, ((lo + hi) \div 2) + 1, hi)
generateToken(random) == generateTokenFrom(random, 1, Len(random))
\* The strings generateToken can return: TokenLength characters of chars.
IsToken(str) ==
    /\ Len(str) = TokenLength
    /\ \A i \in 1..TokenLength : \E j \in 1..Len(chars) : CharAt(str, i) = CharAt(chars, j)
Tokens == {str \in STRING : IsToken(str)}

\* ------------------------------------------------ records (1-14)
User(name, password, role) == [name |-> name, password |-> password, role |-> role]
Session(token, loggedIn) == [token |-> token, loggedIn |-> loggedIn]

\* Map.has / Map.get / Map.set
MapHas(m, k) == k \in DOMAIN m
MapGet(m, k) == m[k]
MapSet(m, k, v) == [x \in (DOMAIN m) \cup {k} |-> IF x = k THEN v ELSE m[x]]
MapDelete(m, k) == [x \in (DOMAIN m) \ {k} |-> m[x]]
EmptyMap == [x \in {} |-> x]

\* ------------------------------------------------ results
AdminNotFound == "Admin does not exist"
NotAuthorized == "You are not authorized to do that!"
DuplicateUser == "User with this email already exists"
EmailNotFound == "Email does not exist"
UserNotFound == "User does not exist"
WrongPassword == "Wrong password"
OldPasswordMismatch == "Old password does not match"
NotLoggedIn == "User is not logged in"
AlreadyLoggedOut == "User is already logged out"
Failure(error) == [success |-> FALSE, error |-> error]

\* ------------------------------------------------ call frames
Idle == [pc |-> "idle"]
InFlight(c) == calls[c].pc \notin {"idle", "done"}
Free(c) == ~InFlight(c)
Return(c, frame, result) ==
    calls' = [calls EXCEPT ![c] = [frame EXCEPT !.pc = "done"] @@ [result |-> result]]
Await(c, frame) == calls' = [calls EXCEPT ![c] = frame]

\* ------------------------------------------------ constructor (17-20)
Init ==
    /\ userTable = EmptyMap
    /\ sessionTable = EmptyMap
    /\ calls = [c \in Calls |-> Idle]
    /\ nops = 0
    /\ prev = Idle
    /\ before = [users |-> EmptyMap, sessions |-> EmptyMap]
    /\ credential = EmptyMap
    /\ lastSession = EmptyMap

\* ------------------------------------------------ bootstrap (127-129)
\* The driver seeds the administrator before its first call.
Bootstrap ==
    /\ nops = 0
    /\ ~MapHas(userTable, adminEmail)
    /\ userTable' = MapSet(userTable, adminEmail, User("Admin", Hashed("admin123"), "ADMIN"))
    /\ credential' = MapSet(credential, adminEmail, [by |-> "bootstrap", password |-> "admin123"])
    /\ UNCHANGED <<sessionTable, calls, nops, prev, before, lastSession>>

\* ------------------------------------------------ login (39-60)
\* login refusing an email whose session is open.
loginRefusesOpenSession(c, email, password) ==
    LET frame == [pc |-> "login_await", op |-> "login", email |-> email, password |-> password]
    IN  /\ Free(c)
        /\ IF ~MapHas(userTable, email)
           THEN calls' = [calls EXCEPT ![c] = [frame EXCEPT !.pc = "done"]
                                              @@ [result |-> Failure(EmailNotFound)]]
           ELSE IF MapHas(sessionTable, email) /\ MapGet(sessionTable, email).loggedIn
           THEN calls' = [calls EXCEPT ![c] = [frame EXCEPT !.pc = "done"]
                                              @@ [result |-> Failure(WrongPassword)]]
           ELSE calls' = [calls EXCEPT ![c] = frame @@ [user |-> MapGet(userTable, email)]]
        /\ UNCHANGED <<userTable, sessionTable>>

login(c, email, password) ==
    LET frame == [pc |-> "login_await", op |-> "login", email |-> email, password |-> password]
    IN  /\ Free(c)
        /\ IF ~MapHas(userTable, email)
           THEN Return(c, frame, Failure(EmailNotFound))
           ELSE Await(c, frame @@ [user |-> MapGet(userTable, email)])
        /\ UNCHANGED <<userTable, sessionTable>>

\* login writing the session before it compares the digests.
loginResumeWriteFirst(c) ==
    /\ calls[c].pc = "login_await"
    /\ \E random \in SampledDraws :
         LET frame == [pc |-> "done", op |-> "login", email |-> calls[c].email,
                       password |-> calls[c].password]
             token == generateToken(random)
         IN  /\ sessionTable' = MapSet(sessionTable, calls[c].email, Session(token, TRUE))
             /\ calls' = [calls EXCEPT ![c] = frame @@ [result |->
                    IF calls[c].user.password # Hashed(calls[c].password)
                    THEN Failure(WrongPassword)
                    ELSE [success |-> TRUE, token |-> token, message |-> "User logged in!"]]]
    /\ UNCHANGED userTable

\* login without the comparison of lines 47-49.
loginResumeNoCompare(c) ==
    /\ calls[c].pc = "login_await"
    /\ \E random \in SampledDraws :
         LET frame == [pc |-> "done", op |-> "login", email |-> calls[c].email,
                       password |-> calls[c].password]
             token == generateToken(random)
         IN  /\ sessionTable' = MapSet(sessionTable, calls[c].email, Session(token, TRUE))
             /\ calls' = [calls EXCEPT ![c] = frame @@ [result |->
                    [success |-> TRUE, token |-> token, message |-> "User logged in!"]]]
    /\ UNCHANGED userTable

\* login storing the session under the user's name instead of the email.
loginResumeWrongKey(c) ==
    /\ calls[c].pc = "login_await"
    /\ LET frame == [pc |-> "done", op |-> "login", email |-> calls[c].email,
                     password |-> calls[c].password]
       IN  IF calls[c].user.password # Hashed(calls[c].password)
           THEN /\ calls' = [calls EXCEPT ![c] = frame @@ [result |-> Failure(WrongPassword)]]
                /\ UNCHANGED sessionTable
           ELSE \E random \in SampledDraws :
                  LET token == generateToken(random)
                  IN  /\ sessionTable' = MapSet(sessionTable, calls[c].user.name,
                                                Session(token, TRUE))
                      /\ calls' = [calls EXCEPT ![c] = frame @@ [result |->
                             [success |-> TRUE, token |-> token, message |-> "User logged in!"]]]
    /\ UNCHANGED userTable

\* login creating a session record only for an email that has none.
loginResumeKeepsRecord(c) ==
    /\ calls[c].pc = "login_await"
    /\ LET frame == [pc |-> "done", op |-> "login", email |-> calls[c].email,
                     password |-> calls[c].password]
       IN  IF calls[c].user.password # Hashed(calls[c].password)
           THEN /\ calls' = [calls EXCEPT ![c] = frame @@ [result |-> Failure(WrongPassword)]]
                /\ UNCHANGED sessionTable
           ELSE \E random \in SampledDraws :
                  LET token == generateToken(random)
                  IN  /\ sessionTable' = IF MapHas(sessionTable, calls[c].email)
                                         THEN sessionTable
                                         ELSE MapSet(sessionTable, calls[c].email,
                                                     Session(token, TRUE))
                      /\ calls' = [calls EXCEPT ![c] = frame @@ [result |->
                             [success |-> TRUE, token |-> token, message |-> "User logged in!"]]]
    /\ UNCHANGED userTable

\* login replacing the whole session table by the session it opens.
loginResumeSingleSession(c) ==
    /\ calls[c].pc = "login_await"
    /\ LET frame == [pc |-> "done", op |-> "login", email |-> calls[c].email,
                     password |-> calls[c].password]
       IN  IF calls[c].user.password # Hashed(calls[c].password)
           THEN /\ calls' = [calls EXCEPT ![c] = frame @@ [result |-> Failure(WrongPassword)]]
                /\ UNCHANGED sessionTable
           ELSE \E random \in SampledDraws :
                  LET token == generateToken(random)
                  IN  /\ sessionTable' = MapSet(EmptyMap, calls[c].email, Session(token, TRUE))
                      /\ calls' = [calls EXCEPT ![c] = frame @@ [result |->
                             [success |-> TRUE, token |-> token, message |-> "User logged in!"]]]
    /\ UNCHANGED userTable

loginResume(c) ==
    /\ calls[c].pc = "login_await"
    /\ LET frame == [pc |-> "done", op |-> "login", email |-> calls[c].email,
                     password |-> calls[c].password]
           user == calls[c].user
           hashedInput == Hashed(calls[c].password)
       IN  IF user.password # hashedInput
           THEN /\ Return(c, frame, Failure(WrongPassword))
                /\ UNCHANGED sessionTable
           ELSE \E random \in SampledDraws :
                  LET token == generateToken(random)
                      session == Session(token, TRUE)
                  IN  /\ sessionTable' = MapSet(sessionTable, calls[c].email, session)
                      /\ Return(c, frame, [success |-> TRUE, token |-> token,
                                           message |-> "User logged in!"])
    /\ UNCHANGED userTable

\* ------------------------------------------------ signup (62-86)
\* signup without the role check of lines 68-70.
signupNoRoleCheck(c, name, email, password, admin) ==
    LET frame == [pc |-> "signup_await", op |-> "signup", name |-> name, email |-> email,
                  password |-> password, adminEmail |-> admin]
    IN  /\ Free(c)
        /\ IF ~MapHas(userTable, admin)
           THEN calls' = [calls EXCEPT ![c] = [frame EXCEPT !.pc = "done"]
                                              @@ [result |-> Failure(AdminNotFound)]]
           ELSE IF MapHas(userTable, email)
           THEN calls' = [calls EXCEPT ![c] = [frame EXCEPT !.pc = "done"]
                                              @@ [result |-> Failure(DuplicateUser)]]
           ELSE calls' = [calls EXCEPT ![c] = frame]
        /\ UNCHANGED <<userTable, sessionTable>>

\* signup without the duplicate check of lines 72-74.
signupNoDuplicateCheck(c, name, email, password, admin) ==
    LET frame == [pc |-> "signup_await", op |-> "signup", name |-> name, email |-> email,
                  password |-> password, adminEmail |-> admin]
    IN  /\ Free(c)
        /\ IF ~MapHas(userTable, admin)
           THEN calls' = [calls EXCEPT ![c] = [frame EXCEPT !.pc = "done"]
                                              @@ [result |-> Failure(AdminNotFound)]]
           ELSE IF MapGet(userTable, admin).role # "ADMIN"
           THEN calls' = [calls EXCEPT ![c] = [frame EXCEPT !.pc = "done"]
                                              @@ [result |-> Failure(NotAuthorized)]]
           ELSE calls' = [calls EXCEPT ![c] = frame]
        /\ UNCHANGED <<userTable, sessionTable>>

\* signup running the duplicate check of lines 72-74 first.
signupDuplicateFirst(c, name, email, password, admin) ==
    LET frame == [pc |-> "signup_await", op |-> "signup", name |-> name, email |-> email,
                  password |-> password, adminEmail |-> admin]
    IN  /\ Free(c)
        /\ IF MapHas(userTable, email)
           THEN calls' = [calls EXCEPT ![c] = [frame EXCEPT !.pc = "done"]
                                              @@ [result |-> Failure(DuplicateUser)]]
           ELSE IF ~MapHas(userTable, admin)
           THEN calls' = [calls EXCEPT ![c] = [frame EXCEPT !.pc = "done"]
                                              @@ [result |-> Failure(AdminNotFound)]]
           ELSE IF MapGet(userTable, admin).role # "ADMIN"
           THEN calls' = [calls EXCEPT ![c] = [frame EXCEPT !.pc = "done"]
                                              @@ [result |-> Failure(NotAuthorized)]]
           ELSE calls' = [calls EXCEPT ![c] = frame]
        /\ UNCHANGED <<userTable, sessionTable>>

signup(c, name, email, password, admin) ==
    LET frame == [pc |-> "signup_await", op |-> "signup", name |-> name, email |-> email,
                  password |-> password, adminEmail |-> admin]
    IN  /\ Free(c)
        /\ IF ~MapHas(userTable, admin)
           THEN Return(c, frame, Failure(AdminNotFound))
           ELSE IF MapGet(userTable, admin).role # "ADMIN"
           THEN Return(c, frame, Failure(NotAuthorized))
           ELSE IF MapHas(userTable, email)
           THEN Return(c, frame, Failure(DuplicateUser))
           ELSE Await(c, frame)
        /\ UNCHANGED <<userTable, sessionTable>>

\* signup opening a session for the account it creates.
signupResumeCreatesSession(c) ==
    /\ calls[c].pc = "signup_await"
    /\ LET hashedPassword == Hashed(calls[c].password)
           user == User(calls[c].name, hashedPassword, "USER")
       IN  /\ userTable' = MapSet(userTable, calls[c].email, user)
           /\ sessionTable' = MapSet(sessionTable, calls[c].email, Session("", FALSE))
           /\ calls' = [calls EXCEPT ![c] = [calls[c] EXCEPT !.pc = "done"] @@ [result |->
                  [success |-> TRUE, message |-> "User created",
                   email |-> calls[c].email, data |-> user]]]

\* signup giving the account it creates the role 'ADMIN'.
signupResumeMakesAdmin(c) ==
    /\ calls[c].pc = "signup_await"
    /\ LET hashedPassword == Hashed(calls[c].password)
           user == User(calls[c].name, hashedPassword, "ADMIN")
       IN  /\ userTable' = MapSet(userTable, calls[c].email, user)
           /\ calls' = [calls EXCEPT ![c] = [calls[c] EXCEPT !.pc = "done"] @@ [result |->
                  [success |-> TRUE, message |-> "User created",
                   email |-> calls[c].email, data |-> user]]]
    /\ UNCHANGED sessionTable

signupResume(c) ==
    /\ calls[c].pc = "signup_await"
    /\ LET hashedPassword == Hashed(calls[c].password)
           user == User(calls[c].name, hashedPassword, "USER")
       IN  /\ userTable' = MapSet(userTable, calls[c].email, user)
           /\ Return(c, calls[c], [success |-> TRUE, message |-> "User created",
                                   email |-> calls[c].email, data |-> user])
    /\ UNCHANGED sessionTable

\* ------------------------------------------------ changePassword (88-104)
changePassword(c, email, oldPass, newPass) ==
    LET frame == [pc |-> "changePassword_await_old", op |-> "changePassword",
                  email |-> email, oldPass |-> oldPass, newPass |-> newPass]
    IN  /\ Free(c)
        /\ IF ~MapHas(userTable, email)
           THEN Return(c, frame, Failure(UserNotFound))
           ELSE Await(c, frame @@ [user |-> MapGet(userTable, email)])
        /\ UNCHANGED <<userTable, sessionTable>>

changePasswordResumeOld(c) ==
    /\ calls[c].pc = "changePassword_await_old"
    /\ LET frame == [pc |-> "done", op |-> "changePassword", email |-> calls[c].email,
                     oldPass |-> calls[c].oldPass, newPass |-> calls[c].newPass]
           oldHashed == Hashed(calls[c].oldPass)
       IN  IF oldHashed # calls[c].user.password
           THEN Return(c, frame, Failure(OldPasswordMismatch))
           ELSE Await(c, [calls[c] EXCEPT !.pc = "changePassword_await_new"])
    /\ UNCHANGED <<userTable, sessionTable>>

\* changePassword storing the old digest again.
changePasswordResumeNewKeepsOld(c) ==
    /\ calls[c].pc = "changePassword_await_new"
    /\ LET frame == [pc |-> "done", op |-> "changePassword", email |-> calls[c].email,
                     oldPass |-> calls[c].oldPass, newPass |-> calls[c].newPass]
           user == calls[c].user
       IN  /\ userTable' = MapSet(userTable, calls[c].email,
                                  User(user.name, user.password, user.role))
           /\ calls' = [calls EXCEPT ![c] = frame @@ [result |->
                  [success |-> TRUE, message |-> "Password updated successfully"]]]
    /\ UNCHANGED sessionTable

\* changePassword building the new record with the role 'USER'.
changePasswordResumeNewResetsRole(c) ==
    /\ calls[c].pc = "changePassword_await_new"
    /\ LET frame == [pc |-> "done", op |-> "changePassword", email |-> calls[c].email,
                     oldPass |-> calls[c].oldPass, newPass |-> calls[c].newPass]
           user == calls[c].user
       IN  /\ userTable' = MapSet(userTable, calls[c].email,
                                  User(user.name, Hashed(calls[c].newPass), "USER"))
           /\ calls' = [calls EXCEPT ![c] = frame @@ [result |->
                  [success |-> TRUE, message |-> "Password updated successfully"]]]
    /\ UNCHANGED sessionTable

\* changePassword closing the session of its email.
changePasswordResumeNewClosesSession(c) ==
    /\ calls[c].pc = "changePassword_await_new"
    /\ LET frame == [pc |-> "done", op |-> "changePassword", email |-> calls[c].email,
                     oldPass |-> calls[c].oldPass, newPass |-> calls[c].newPass]
           user == calls[c].user
       IN  /\ userTable' = MapSet(userTable, calls[c].email,
                                  User(user.name, Hashed(calls[c].newPass), user.role))
           /\ sessionTable' = IF MapHas(sessionTable, calls[c].email)
                              THEN [sessionTable EXCEPT ![calls[c].email].loggedIn = FALSE]
                              ELSE sessionTable
           /\ calls' = [calls EXCEPT ![c] = frame @@ [result |->
                  [success |-> TRUE, message |-> "Password updated successfully"]]]

changePasswordResumeNew(c) ==
    /\ calls[c].pc = "changePassword_await_new"
    /\ LET frame == [pc |-> "done", op |-> "changePassword", email |-> calls[c].email,
                     oldPass |-> calls[c].oldPass, newPass |-> calls[c].newPass]
           user == calls[c].user
           newHashed == Hashed(calls[c].newPass)
           updatedUser == User(user.name, newHashed, user.role)
       IN  /\ userTable' = MapSet(userTable, calls[c].email, updatedUser)
           /\ Return(c, frame, [success |-> TRUE, message |-> "Password updated successfully"])
    /\ UNCHANGED sessionTable

\* ------------------------------------------------ logout (106-119)
\* logout deleting the session record instead of clearing its flag.
logoutDeletesSession(c, email) ==
    LET frame == [pc |-> "done", op |-> "logout", email |-> email]
    IN  /\ Free(c)
        /\ IF ~MapHas(sessionTable, email)
           THEN /\ calls' = [calls EXCEPT ![c] = frame @@ [result |-> Failure(NotLoggedIn)]]
                /\ UNCHANGED sessionTable
           ELSE IF ~MapGet(sessionTable, email).loggedIn
           THEN /\ calls' = [calls EXCEPT ![c] = frame @@ [result |-> Failure(AlreadyLoggedOut)]]
                /\ UNCHANGED sessionTable
           ELSE /\ sessionTable' = MapDelete(sessionTable, email)
                /\ calls' = [calls EXCEPT ![c] = frame @@ [result |->
                       [success |-> TRUE, message |-> "User has been logged out"]]]
        /\ UNCHANGED userTable

logout(c, email) ==
    LET frame == [pc |-> "done", op |-> "logout", email |-> email]
    IN  /\ Free(c)
        /\ IF ~MapHas(sessionTable, email)
           THEN /\ Return(c, frame, Failure(NotLoggedIn))
                /\ UNCHANGED sessionTable
           ELSE IF ~MapGet(sessionTable, email).loggedIn
           THEN /\ Return(c, frame, Failure(AlreadyLoggedOut))
                /\ UNCHANGED sessionTable
           ELSE /\ sessionTable' = [sessionTable EXCEPT ![email].loggedIn = FALSE]
                /\ Return(c, frame, [success |-> TRUE, message |-> "User has been logged out"])
        /\ UNCHANGED userTable

\* ------------------------------------------------ the callers
\* What the callers learn from the step that has just run frame c: a stored
\* password is set by a successful signup or changePassword, a session is
\* switched by a successful login or logout.
Succeeded(frame, op) == frame.pc = "done" /\ frame.op = op /\ frame.result.success
Observe(c) ==
    LET frame == calls'[c]
    IN  /\ credential' =
              IF Succeeded(frame, "signup")
              THEN MapSet(credential, frame.email,
                          [by |-> "signup", password |-> frame.password])
              ELSE IF Succeeded(frame, "changePassword")
              THEN MapSet(credential, frame.email,
                          [by |-> "changePassword", password |-> frame.newPass,
                           oldPass |-> frame.oldPass])
              ELSE credential
        /\ lastSession' =
              IF Succeeded(frame, "login") THEN MapSet(lastSession, frame.email, "login")
              ELSE IF Succeeded(frame, "logout") THEN MapSet(lastSession, frame.email, "logout")
              ELSE lastSession

\* The awaited digest is delivered to frame c.
Resume(c) ==
    /\ \/ loginResume(c)
       \/ signupResume(c)
       \/ changePasswordResumeOld(c)
       \/ changePasswordResumeNew(c)
    /\ Observe(c)
    /\ UNCHANGED <<nops, prev, before>>

\* The driver (126-158) makes one call after the other: it awaits each result.
Driver == 1
Sequential(call) ==
    /\ nops < MaxOps
    /\ call
    /\ Observe(Driver)
    /\ nops' = nops + 1
    /\ prev' = calls[Driver]
    /\ before' = [users |-> userTable, sessions |-> sessionTable]

Next ==
    \/ Bootstrap
    \/ \E e \in Emails, p \in Passwords : Sequential(login(Driver, e, p))
    \/ \E n \in Names, e \in Emails, p \in Passwords, a \in Emails :
          Sequential(signup(Driver, n, e, p, a))
    \/ \E e \in Emails, o \in Passwords, p \in Passwords :
          Sequential(changePassword(Driver, e, o, p))
    \/ \E e \in Emails : Sequential(logout(Driver, e))
    \/ Resume(Driver)

Spec == Init /\ [][Next]_vars

\* Callers that do not wait for each other: up to MaxCalls calls in flight.
\* A new call takes the first frame that is not in flight.
FirstFree == CHOOSE c \in Calls : Free(c) /\ \A d \in Calls : Free(d) => c <= d
Concurrent(call) ==
    /\ nops < MaxOps
    /\ call
    /\ Observe(FirstFree)
    /\ nops' = nops + 1
    /\ UNCHANGED <<prev, before>>

NextConc ==
    \/ Bootstrap
    \/ \E c \in Calls : Resume(c)
    \/ /\ \E c \in Calls : Free(c)
       /\ \/ \E e \in ConcEmails, p \in ConcPasswords : Concurrent(login(FirstFree, e, p))
          \/ \E n \in ConcNames, e \in ConcEmails, p \in ConcPasswords, a \in ConcEmails :
                Concurrent(signup(FirstFree, n, e, p, a))
          \/ \E e \in ConcEmails, o \in ConcPasswords, p \in ConcPasswords :
                Concurrent(changePassword(FirstFree, e, o, p))
          \/ \E e \in ConcEmails : Concurrent(logout(FirstFree, e))

SpecConc == Init /\ [][NextConc]_vars

\* ================================================================ claims
Cur == calls[Driver]
Done(frame, op) == frame.pc = "done" /\ frame.op = op
Failed(frame, error) == frame.pc = "done" /\ frame.result = Failure(error)
IsAdmin(users, e) == MapHas(users, e) /\ MapGet(users, e).role = "ADMIN"
IsUser(users, e) == MapHas(users, e) /\ MapGet(users, e).role = "USER"

\* C1 (admin gate): a signup whose adminEmail is registered with role USER
\* fails with "You are not authorized to do that!" whatever the name, target
\* email and password are, and leaves userTable as it was when it was called.
AdminGate ==
    (Done(Cur, "signup") /\ IsUser(before.users, Cur.adminEmail))
        => /\ Cur.result = Failure(NotAuthorized)
           /\ userTable = before.users
\* A USER has tried to sign up an email that is already registered.
AdminGateWitness ==
    /\ Done(Cur, "signup") /\ IsUser(before.users, Cur.adminEmail)
    /\ MapHas(before.users, Cur.email)
    /\ Cur.result = Failure(NotAuthorized)

\* C2 (no partial writes): when a call of the driver has returned a failure
\* result, userTable and sessionTable are what they were when it was called.
FailureLeavesTables ==
    (Cur.pc = "done" /\ ~Cur.result.success)
        => /\ userTable = before.users
           /\ sessionTable = before.sessions
\* A login has failed after its await while a session exists.
FailureLeavesTablesWitness ==
    /\ Failed(Cur, WrongPassword)
    /\ MapHas(sessionTable, Cur.email)
    /\ MapGet(sessionTable, Cur.email).loggedIn

\* C3 (duplicate gate): of two signups for the same target email made one
\* after the other, each with a registered ADMIN as adminEmail, the second
\* fails with "User with this email already exists" and leaves userTable as
\* it was; the record the first one stored is still the one under the email.
AdminAccepted(frame) == frame.result.success \/ frame.result = Failure(DuplicateUser)
DuplicateGate ==
    (/\ Done(Cur, "signup") /\ IsAdmin(before.users, Cur.adminEmail)
     /\ Done(prev, "signup") /\ AdminAccepted(prev)
     /\ prev.email = Cur.email)
        => /\ Cur.result = Failure(DuplicateUser)
           /\ userTable = before.users
           /\ prev.result.success =>
                 /\ MapGet(userTable, Cur.email) = prev.result.data
                 /\ prev.result.data = User(prev.name, Hashed(prev.password), "USER")
\* The second signup came with another name and another password.
DuplicateGateWitness ==
    /\ Done(Cur, "signup") /\ Done(prev, "signup")
    /\ prev.result.success
    /\ prev.email = Cur.email /\ prev.name # Cur.name /\ prev.password # Cur.password
    /\ IsAdmin(before.users, Cur.adminEmail)
    /\ Cur.result = Failure(DuplicateUser)

\* C4 as claimed (password change): when the stored password of an email was
\* last set by a successful changePassword(email, old, new), a login with old
\* fails with "Wrong password" and a login with new succeeds, for all old, new.
OldPasswordRejected ==
    (/\ Done(Cur, "login") /\ MapHas(credential, Cur.email)
     /\ MapGet(credential, Cur.email).by = "changePassword")
        => /\ Cur.password = MapGet(credential, Cur.email).oldPass
                 => Cur.result = Failure(WrongPassword)
           /\ Cur.password = MapGet(credential, Cur.email).password
                 => Cur.result.success
\* C4 as amended: the login with old fails with "Wrong password" when the
\* digests of old and new differ; the login with new succeeds in every case.
OldPasswordRejectedUnlessSame ==
    (/\ Done(Cur, "login") /\ MapHas(credential, Cur.email)
     /\ MapGet(credential, Cur.email).by = "changePassword")
        => LET old == MapGet(credential, Cur.email).oldPass
               new == MapGet(credential, Cur.email).password
           IN  /\ (Cur.password = old /\ Hashed(old) # Hashed(new))
                     => Cur.result = Failure(WrongPassword)
               /\ Cur.password = new => Cur.result.success
\* A login with the old password has been refused after a real change.
OldPasswordRejectedWitness ==
    /\ Done(Cur, "login") /\ MapHas(credential, Cur.email)
    /\ MapGet(credential, Cur.email).by = "changePassword"
    /\ MapGet(credential, Cur.email).oldPass # MapGet(credential, Cur.email).password
    /\ Cur.password = MapGet(credential, Cur.email).oldPass
    /\ Cur.result = Failure(WrongPassword)

\* C5 (login round trip): while the stored password of an email is the one
\* its signup set, a login with that password succeeds and leaves the session
\* {token returned, loggedIn: true} under the email; a login with any other
\* password fails with "Wrong password" and leaves sessionTable as it was.
LoginRoundTrip ==
    (/\ Done(Cur, "login") /\ MapHas(credential, Cur.email)
     /\ MapGet(credential, Cur.email).by = "signup")
        => IF Cur.password = MapGet(credential, Cur.email).password
           THEN /\ Cur.result.success
                /\ sessionTable = MapSet(before.sessions, Cur.email,
                                          Session(Cur.result.token, TRUE))
           ELSE /\ Cur.result = Failure(WrongPassword)
                /\ sessionTable = before.sessions
\* A wrong password has been refused right after the right one was accepted.
LoginRoundTripWitness ==
    /\ Done(Cur, "login") /\ Done(prev, "login") /\ prev.email = Cur.email
    /\ MapHas(credential, Cur.email) /\ MapGet(credential, Cur.email).by = "signup"
    /\ prev.password = MapGet(credential, Cur.email).password /\ prev.result.success
    /\ Cur.password # prev.password /\ Cur.result = Failure(WrongPassword)

\* C6 (logout twice): a logout of an email whose last successful session call
\* was a login succeeds, clears loggedIn and keeps the record with its token;
\* a logout of an email whose last successful session call was a logout fails
\* with "User is already logged out" and leaves sessionTable as it was.
LogoutCalled == nops' = nops + 1 /\ calls'[Driver].op = "logout"
LogoutTwice ==
    [][LogoutCalled =>
        LET e == calls'[Driver].email
        IN  /\ (MapHas(lastSession, e) /\ MapGet(lastSession, e) = "login")
                  => /\ calls'[Driver].result.success
                     /\ MapHas(sessionTable, e)
                     /\ sessionTable' = MapSet(sessionTable, e,
                                               Session(MapGet(sessionTable, e).token, FALSE))
            /\ (MapHas(lastSession, e) /\ MapGet(lastSession, e) = "logout")
                  => /\ calls'[Driver].result = Failure(AlreadyLoggedOut)
                     /\ sessionTable' = sessionTable]_vars
\* The second of two logouts in a row has been refused.
LogoutTwiceWitness ==
    /\ Done(Cur, "logout") /\ Done(prev, "logout") /\ prev.email = Cur.email
    /\ prev.result.success
    /\ Cur.result = Failure(AlreadyLoggedOut)
    /\ MapHas(sessionTable, Cur.email) /\ ~MapGet(sessionTable, Cur.email).loggedIn

\* C7 (concurrent signups): of the signups for one target email that are in
\* flight together at most one returns success, so no two frames hold a
\* successful signup result for the same email.
OneSignupPerEmail ==
    \A c, d \in Calls :
        (c # d /\ Succeeded(calls[c], "signup") /\ Succeeded(calls[d], "signup"))
            => calls[c].email # calls[d].email

\* C8 as claimed (no plaintext): no string field of a stored user or session
\* record equals a password passed to the driver's current or previous call.
PasswordsPassed(frame) ==
    IF frame.pc = "idle" \/ frame.op = "logout" THEN {}
    ELSE IF frame.op = "changePassword" THEN {frame.oldPass, frame.newPass}
    ELSE {frame.password}
NoFieldIsPlaintext ==
    \A p \in PasswordsPassed(Cur) \cup PasswordsPassed(prev) :
        /\ \A e \in DOMAIN userTable :
              /\ MapGet(userTable, e).name # p
              /\ MapGet(userTable, e).password # p
              /\ MapGet(userTable, e).role # p
        /\ \A e \in DOMAIN sessionTable : MapGet(sessionTable, e).token # p
\* C8 as amended: the password field of every stored user record is the
\* digest of the password last set for the email, 64 lowercase hexadecimal
\* characters, and differs from every password that is not such a string.
HexChars == {CharAt(HexDigits, i) : i \in 1..16}
IsDigest(str) == Len(str) = 64 /\ \A i \in 1..64 : CharAt(str, i) \in HexChars
StoredPasswordIsDigest ==
    \A e \in DOMAIN userTable :
        /\ MapHas(credential, e)
        /\ MapGet(userTable, e).password = Hashed(MapGet(credential, e).password)
        /\ IsDigest(MapGet(userTable, e).password)
        /\ \A p \in Passwords : ~IsDigest(p) => MapGet(userTable, e).password # p
\* A signup and a changePassword have each stored a digest.
StoredPasswordIsDigestWitness ==
    /\ \E e \in DOMAIN userTable : MapGet(credential, e).by = "signup"
    /\ \E e \in DOMAIN userTable : MapGet(credential, e).by = "changePassword"

\* C9 (sessions belong to users): every email with a session record has a
\* user record, and that record's role is ADMIN or USER.
SessionsHaveUsers ==
    \A e \in DOMAIN sessionTable :
        /\ MapHas(userTable, e)
        /\ MapGet(userTable, e).role \in {"ADMIN", "USER"}
\* A signed-up user has logged in and out: the session record is kept.
SessionsHaveUsersWitness ==
    \E e \in DOMAIN sessionTable :
        /\ IsUser(userTable, e)
        /\ ~MapGet(sessionTable, e).loggedIn

\* C10 (changePassword frame): a successful changePassword replaces the record
\* under its email by one with the same name and role and the digest of the
\* new password, and leaves every other record and sessionTable as they were.
ChangePasswordFrame ==
    (Done(Cur, "changePassword") /\ Cur.result.success)
        => /\ userTable = [before.users EXCEPT
                 ![Cur.email] = User(MapGet(before.users, Cur.email).name,
                                     Hashed(Cur.newPass),
                                     MapGet(before.users, Cur.email).role)]
           /\ sessionTable = before.sessions
\* The administrator has changed the password to a new one while logged in.
ChangePasswordFrameWitness ==
    /\ Done(Cur, "changePassword") /\ Cur.result.success
    /\ Cur.oldPass # Cur.newPass
    /\ IsAdmin(userTable, Cur.email)
    /\ MapHas(sessionTable, Cur.email) /\ MapGet(sessionTable, Cur.email).loggedIn

\* C11 (signup effect): a successful signup finds no record under its email
\* and leaves userTable with exactly one record more, {name, digest of the
\* password, role USER} under that email, whatever name, password and admin
\* were passed; sessionTable is as it was and holds no record for the email,
\* and an email has a session record only after a successful login of it.
SignupEffect ==
    /\ (Done(Cur, "signup") /\ Cur.result.success)
          => /\ ~MapHas(before.users, Cur.email)
             /\ userTable = MapSet(before.users, Cur.email,
                                   User(Cur.name, Hashed(Cur.password), "USER"))
             /\ Cur.result.data = MapGet(userTable, Cur.email)
             /\ sessionTable = before.sessions
             /\ ~MapHas(sessionTable, Cur.email)
    /\ \A e \in DOMAIN sessionTable : MapHas(lastSession, e)
\* A signup whose name is the password of its administrator has succeeded
\* while the administrator is logged in.
SignupEffectWitness ==
    /\ Done(Cur, "signup") /\ Cur.result.success
    /\ Cur.name = "pw" /\ Cur.password = "admin123"
    /\ MapHas(sessionTable, Cur.adminEmail)
    /\ MapGet(sessionTable, Cur.adminEmail).loggedIn

\* C12 (administrators are fixed): no step of a signup, login, changePassword
\* or logout call adds an email to or removes one from the emails whose record
\* has the role ADMIN, so the set stays the one the bootstrap left; and a step
\* in which a signup returns success starts in a state that has an ADMIN.
Admins(users) == {e \in DOMAIN users : MapGet(users, e).role = "ADMIN"}
CallStep == nops' # nops \/ calls' # calls
AdminsFixed ==
    [][CallStep =>
        /\ Admins(userTable') = Admins(userTable)
        /\ Succeeded(calls'[Driver], "signup") => Admins(userTable) # {}]_vars
\* The only administrator has signed a user up and changed its own password.
AdminsFixedWitness ==
    /\ Admins(userTable) = {adminEmail}
    /\ MapGet(credential, adminEmail).by = "changePassword"
    /\ \E e \in DOMAIN userTable : MapGet(credential, e).by = "signup"

\* C13 (order of the signup checks): a signup whose adminEmail has no record
\* fails with "Admin does not exist" and one whose adminEmail has a record
\* with another role than ADMIN fails with "You are not authorized to do
\* that!", in both cases also when the target email is registered; "User with
\* this email already exists" is returned only when adminEmail is a registered
\* ADMIN, and then exactly when the target email is registered.
SignupCheckOrder ==
    Done(Cur, "signup") =>
        /\ ~MapHas(before.users, Cur.adminEmail) => Cur.result = Failure(AdminNotFound)
        /\ (MapHas(before.users, Cur.adminEmail) /\ ~IsAdmin(before.users, Cur.adminEmail))
              => Cur.result = Failure(NotAuthorized)
        /\ Cur.result = Failure(DuplicateUser)
              <=> (IsAdmin(before.users, Cur.adminEmail) /\ MapHas(before.users, Cur.email))
\* A signup for a registered email has failed for its unknown adminEmail.
SignupCheckOrderWitness ==
    /\ Done(Cur, "signup")
    /\ MapHas(before.users, Cur.email)
    /\ ~MapHas(before.users, Cur.adminEmail)
    /\ Cur.result = Failure(AdminNotFound)

\* C14 (login ignores the session): a login with the password whose digest is
\* stored under its email succeeds whether the email had no session record,
\* one with loggedIn false or one with loggedIn true when it was called, and
\* leaves under the email exactly {the token it returns, loggedIn: true},
\* every other session record being as it was.
SessionStates(sessions, e) ==
    IF ~MapHas(sessions, e) THEN "none"
    ELSE IF MapGet(sessions, e).loggedIn THEN "open" ELSE "closed"
LoginIgnoresSession ==
    (/\ Done(Cur, "login") /\ MapHas(before.users, Cur.email)
     /\ MapGet(before.users, Cur.email).password = Hashed(Cur.password))
        => /\ Cur.result.success
           /\ Cur.result.token \in Tokens
           /\ sessionTable = MapSet(before.sessions, Cur.email,
                                     Session(Cur.result.token, TRUE))
\* A login has replaced the open session of its email by one with another token.
LoginIgnoresSessionWitness ==
    /\ Done(Cur, "login") /\ Cur.result.success
    /\ SessionStates(before.sessions, Cur.email) = "open"
    /\ MapGet(before.sessions, Cur.email).token # Cur.result.token
    /\ MapGet(sessionTable, Cur.email) = Session(Cur.result.token, TRUE)

\* C15 (lifecycle of an email): in every step each email stays in its phase
\* or moves along NoAccount -> Registered -> LoggedIn <-> LoggedOut; a user
\* record and a session record that are present stay present; loggedIn goes
\* from true to false only in a step in which a logout of that email returns
\* success, and from false or absent to true only in a step in which a login
\* of that email returns success.
Phase(users, sessions, e) ==
    IF ~MapHas(users, e)
    THEN (IF MapHas(sessions, e) THEN "SessionWithoutAccount" ELSE "NoAccount")
    ELSE IF ~MapHas(sessions, e) THEN "Registered"
    ELSE IF MapGet(sessions, e).loggedIn THEN "LoggedIn" ELSE "LoggedOut"
PhaseMoves ==
    {<<"NoAccount", "Registered">>, <<"Registered", "LoggedIn">>,
     <<"LoggedIn", "LoggedOut">>, <<"LoggedOut", "LoggedIn">>}
    \cup {<<ph, ph>> : ph \in {"NoAccount", "Registered", "LoggedIn", "LoggedOut"}}
LoginReturns(e) ==
    /\ calls[Driver].pc = "login_await"
    /\ Succeeded(calls'[Driver], "login") /\ calls'[Driver].email = e
LogoutReturns(e) ==
    /\ nops' = nops + 1
    /\ Succeeded(calls'[Driver], "logout") /\ calls'[Driver].email = e
Lifecycle ==
    [][\A e \in DOMAIN userTable \cup DOMAIN userTable' \cup
                DOMAIN sessionTable \cup DOMAIN sessionTable' \cup Emails :
        LET ph == Phase(userTable, sessionTable, e)
            next == Phase(userTable', sessionTable', e)
        IN  /\ <<ph, next>> \in PhaseMoves
            /\ MapHas(userTable, e) => MapHas(userTable', e)
            /\ MapHas(sessionTable, e) => MapHas(sessionTable', e)
            /\ (ph = "LoggedIn" /\ next # "LoggedIn") => LogoutReturns(e)
            /\ (ph # "LoggedIn" /\ next = "LoggedIn") => LoginReturns(e)]_vars
\* An email has been logged in, logged out and logged in again.
LifecycleWitness ==
    /\ Succeeded(prev, "logout") /\ Succeeded(Cur, "login")
    /\ prev.email = Cur.email
    /\ Phase(userTable, sessionTable, Cur.email) = "LoggedIn"

\* C16 (login overlapping logout): when a login of an email returns while a
\* frame holds the result of a logout of the same email, the session record
\* being what that logout left and the user record what the login read, then
\* sessionTable is what the two calls leave when they run one after the other
\* from the state the logout found, login first or logout first.
LoginAlone(users, sessions, e, password, token) ==
    IF MapHas(users, e) /\ MapGet(users, e).password = Hashed(password)
    THEN MapSet(sessions, e, Session(token, TRUE))
    ELSE sessions
LogoutAlone(sessions, e) ==
    IF MapHas(sessions, e) /\ MapGet(sessions, e).loggedIn
    THEN [sessions EXCEPT ![e].loggedIn = FALSE]
    ELSE sessions
\* sessionTable is what the logout held by frame d has left.
LeftByLogout(d) ==
    LET e == calls[d].email
    IN  IF calls[d].result.success \/ calls[d].result = Failure(AlreadyLoggedOut)
        THEN MapHas(sessionTable, e) /\ ~MapGet(sessionTable, e).loggedIn
        ELSE ~MapHas(sessionTable, e)
\* sessionTable as the logout held by frame d found it.
FoundByLogout(d) ==
    IF calls[d].result.success
    THEN [sessionTable EXCEPT ![calls[d].email].loggedIn = TRUE]
    ELSE sessionTable
LoginLogoutSerial ==
    [][\A c, d \in Calls :
        (/\ c # d
         /\ calls[c].pc = "login_await" /\ calls'[c].pc = "done"
         /\ Done(calls[d], "logout") /\ calls[d].email = calls[c].email
         /\ LeftByLogout(d)
         /\ calls[c].user = MapGet(userTable, calls[c].email))
            => LET e == calls[c].email
                   token == IF calls'[c].result.success THEN calls'[c].result.token ELSE ""
                   loginFirst == LogoutAlone(LoginAlone(userTable, FoundByLogout(d), e,
                                                        calls[c].password, token), e)
                   logoutFirst == LoginAlone(userTable, LogoutAlone(FoundByLogout(d), e), e,
                                             calls[c].password, token)
               IN  sessionTable' \in {loginFirst, logoutFirst}]_vars
\* The third call, a logout, has closed the session of the first while the
\* second, a login of the same email, was suspended; the login has reopened it.
LoginLogoutSerialWitness ==
    /\ nops = 3
    /\ Succeeded(calls[1], "login") /\ Succeeded(calls[2], "logout")
    /\ calls[1].email = calls[2].email
    /\ MapGet(sessionTable, calls[1].email) = Session(calls[1].result.token, TRUE)

\* C17 (login against the stored digest): in every step in which a login
\* writes a session record, the digest of its password is the one stored
\* under its email in the state the write is made in, also when a
\* changePassword of that email has completed since the login was called.
LoginWrites(c) ==
    /\ calls[c].pc = "login_await"
    /\ Succeeded(calls'[c], "login")
    /\ sessionTable' = MapSet(sessionTable, calls[c].email,
                              Session(calls'[c].result.token, TRUE))
LoginAgainstStored ==
    [][\A c \in Calls :
        LoginWrites(c)
            => MapGet(userTable, calls[c].email).password = Hashed(calls[c].password)]_vars

\* C18 (overlapping password changes): in every step in which a
\* changePassword writes the new record and returns success, the digest of
\* its oldPass is the one stored under its email in the state the write is
\* made in, also when the stored digest is the one another changePassword
\* with the same oldPass and a different new password has written: of two
\* such calls in flight together at most one returns success.
ChangePasswordWrites(c) ==
    /\ calls[c].pc = "changePassword_await_new"
    /\ Succeeded(calls'[c], "changePassword")
    /\ MapGet(userTable', calls[c].email).password = Hashed(calls[c].newPass)
ChangeAgainstStored ==
    [][\A c, d \in Calls :
        (/\ c # d
         /\ ChangePasswordWrites(c)
         /\ Succeeded(calls[d], "changePassword")
         /\ calls[d].email = calls[c].email
         /\ calls[d].oldPass = calls[c].oldPass
         /\ calls[d].newPass # calls[c].newPass
         /\ MapGet(userTable, calls[c].email).password = Hashed(calls[d].newPass))
            => MapGet(userTable, calls[c].email).password = Hashed(calls[c].oldPass)]_vars

\* C19 (isolation per email): while and after a call of the driver runs, the
\* user record and the session record of every email other than the one the
\* call is for (the target email of a signup) are what they were when it was
\* called, present or absent; a signup moreover leaves sessionTable as it was.
SameAt(m1, m2, k) ==
    /\ MapHas(m1, k) <=> MapHas(m2, k)
    /\ MapHas(m1, k) => MapGet(m1, k) = MapGet(m2, k)
OtherEmails ==
    (DOMAIN userTable \cup DOMAIN before.users \cup
     DOMAIN sessionTable \cup DOMAIN before.sessions \cup Emails) \ {Cur.email}
IsolatedPerEmail ==
    Cur.pc # "idle" =>
        /\ \A f \in OtherEmails :
              /\ SameAt(userTable, before.users, f)
              /\ SameAt(sessionTable, before.sessions, f)
        /\ Cur.op = "signup" => sessionTable = before.sessions
\* A login has succeeded while another email has a user and a session record.
IsolatedPerEmailWitness ==
    /\ Succeeded(Cur, "login")
    /\ \E f \in OtherEmails : MapHas(userTable, f) /\ MapHas(sessionTable, f)
====
